---- MODULE Spec2Model ----
(***************************************************************************)
(* A model of src/app.py, the AAED Source Data Cleaner (a Streamlit app).  *)
(*                                                                         *)
(* Streamlit executes the whole script once per user event (a file put in  *)
(* or taken out of the uploader, a button click, a radio change) and once  *)
(* more, with no event, after st.rerun().  One action of this model is one *)
(* execution of the script.  What survives between executions is           *)
(* st.session_state (main_df, file_name, working_df, show_classification), *)
(* the state of the rendered widgets (the radios) and the uploader.        *)
(*                                                                         *)
(* A row carries the columns the script's logic reads: index, sub_index,   *)
(* word and homophone.  The columns entry and gloss are only displayed    *)
(* (lines 91-94, 166) and are left out of a row; the required cells are    *)
(* taken to be filled (section 6 of the spec: only homophone is nullable). *)
(***************************************************************************)
EXTENDS Integers, Sequences, FiniteSets, TLC

VARIABLES
    uploaded_file,        \* the file in st.file_uploader (NoFile: none)
    session_keys,         \* the keys present in st.session_state
    main_df,              \* st.session_state.main_df: the Record Store
    file_name,            \* st.session_state.file_name
    working_df,           \* st.session_state.working_df: the pending queue
    show_classification,  \* st.session_state.get('show_classification', False)
    radio,                \* the values held by the radios radio_0.. now on screen
    radio_groups,         \* the number of options those radios offer (0: none)
    rerun_requested,      \* the last execution ended in st.rerun()
    screen,               \* the widgets the last execution rendered
    error,                \* the columns named by st.error (line 39), {} if none
    last,                 \* the event that started the last execution
    current_word,         \* the script's local current_word (line 79)
    word_entries          \* the script's local word_entries (line 82)

vars == <<uploaded_file, session_keys, main_df, file_name, working_df,
          show_classification, radio, radio_groups, rerun_requested, screen,
          error, last, current_word, word_entries>>

-----------------------------------------------------------------------------
(* Values *)

\* np.nan in the homophone column of a dataframe
NaN == 0
\* an empty cell of a spreadsheet
Blank == -1

required_columns == {"index", "sub_index", "entry", "gloss", "word"}

\* No file in the uploader (uploaded_file is None).
NoFile == [name |-> <<>>, columns |-> {}, rows |-> <<>>]

Min(a, b) == IF a < b THEN a ELSE b

-----------------------------------------------------------------------------
(* Spreadsheet input and output *)

missing_columns(f) == required_columns \ f.columns

\* pd.read_excel followed by the initialisation of the homophone column: an
\* empty cell reads as NaN, and a file without the column gets a NaN column.
InitialFrame(f) ==
    [i \in 1..Len(f.rows) |->
        [index     |-> f.rows[i].index,
         sub_index |-> f.rows[i].sub_index,
         word      |-> f.rows[i].word,
         homophone |-> IF "homophone" \in f.columns /\ f.rows[i].homophone # Blank
                       THEN f.rows[i].homophone
                       ELSE NaN]]

\* to_excel_bytes writing the sheet without the labels of the session
to_excel_bytes_unlabelled(df) ==
    [i \in 1..Len(df) |->
        [index     |-> df[i].index,
         sub_index |-> df[i].sub_index,
         word      |-> df[i].word,
         homophone |-> Blank]]

\* df.to_excel(writer, index=False): every column is written, NaN as an
\* empty cell.
to_excel_bytes(df) ==
    [i \in 1..Len(df) |->
        [index     |-> df[i].index,
         sub_index |-> df[i].sub_index,
         word      |-> df[i].word,
         homophone |-> IF df[i].homophone = NaN THEN Blank ELSE df[i].homophone]]

\* The file the download button hands out: classified_<name>.
ExportedFile(name, df) ==
    [name    |-> <<"classified_">> \o name,
     columns |-> required_columns \cup {"homophone"},
     rows    |-> to_excel_bytes(df)]

-----------------------------------------------------------------------------
(* Lines 41-62: load *)

\* main_df is (re)built from the uploaded file.
ReplacesMain(keys, held, f) ==
    \/ "main_df" \notin keys
    \/ "file_name" \notin keys
    \/ held # f.name

\* The file name is remembered only in the branch that replaces an existing
\* main_df (line 59); the first load does not store it.
RemembersName(keys, held, f) ==
    /\ "main_df" \in keys
    /\ ("file_name" \notin keys \/ held # f.name)

\* ss is st.session_state, as a record: keys, main, name, working, show.
LoadedMain(ss, f) ==
    IF ReplacesMain(ss.keys, ss.name, f) THEN InitialFrame(f) ELSE ss.main

LoadedName(ss, f) ==
    IF RemembersName(ss.keys, ss.name, f) THEN f.name ELSE ss.name

LoadedKeys(ss, f) ==
    ss.keys \cup {"main_df"}
        \cup (IF RemembersName(ss.keys, ss.name, f) THEN {"file_name"} ELSE {})

-----------------------------------------------------------------------------
(* Lines 64-67: single occurrence marking *)

\* df['word'].value_counts()
word_counts(df, w) == Cardinality({i \in DOMAIN df : df[i].word = w})

single_words(df) == {df[i].word : i \in {j \in DOMAIN df : word_counts(df, df[j].word) = 1}}

\* the marking without its mask: every row is labelled 1
ApplySingletonAll(df) == [i \in DOMAIN df |-> [df[i] EXCEPT !.homophone = 1]]

\* df.loc[df['word'].isin(single_words), 'homophone'] = 1
ApplySingleton(df) ==
    [i \in DOMAIN df |->
        IF df[i].word \in single_words(df)
        THEN [df[i] EXCEPT !.homophone = 1]
        ELSE df[i]]

-----------------------------------------------------------------------------
(* Lines 69-82: the pending queue and the current group *)

IsUnclassified(r) == r.homophone = NaN

\* df[df['homophone'].isna()].copy()
Unclassified(df) == SelectSeq(df, IsUnclassified)

\* working_df is built only when the session has none (line 73).
InitWorking(keys, held, df) ==
    IF "working_df" \in keys THEN held ELSE Unclassified(df)

\* working_df[working_df['word'] == w]
WordEntries(wk, w) == SelectSeq(wk, LAMBDA r : r.word = w)

\* the removal that drops the row at the head of the queue only
RemoveWordFirst(wk, w) == Tail(wk)

\* working_df[working_df['word'] != w]
RemoveWord(wk, w) == SelectSeq(wk, LAMBDA r : r.word # w)

-----------------------------------------------------------------------------
(* Lines 114-153, 193-208: the three resolutions *)

\* main_df.loc[(main_df['index'] == idx) & (main_df['sub_index'] == sub),
\*             'homophone'] = label
SetLabel(df, idx, sub, label) ==
    [i \in DOMAIN df |->
        IF df[i].index = idx /\ df[i].sub_index = sub
        THEN [df[i] EXCEPT !.homophone = label]
        ELSE df[i]]

\* The label the loop of one policy gives the i-th member of the group.
UniformLabel(i) == 1
DistinctLabel(i) == i

RECURSIVE MarkFrom(_, _, _, _)
\* for i, row in enumerate(entries, start=1): set row's label to labels[i],
\* from the i-th row on.
MarkFrom(df, entries, labels, i) ==
    IF i > Len(entries) THEN df
    ELSE MarkFrom(SetLabel(df, entries[i].index, entries[i].sub_index, labels[i]),
                  entries, labels, i + 1)

\* "Just one word": lines 119-125
MarkUniform(df, entries) ==
    MarkFrom(df, entries, [i \in 1..Len(entries) |-> UniformLabel(i)], 1)

\* "All different words": lines 143-149
MarkDistinct(df, entries) ==
    MarkFrom(df, entries, [i \in 1..Len(entries) |-> DistinctLabel(i)], 1)

\* "Save Classification & Continue": lines 195-201
MarkManual(df, entries, selection) == MarkFrom(df, entries, selection, 1)

\* homophone_groups = min(5, len(word_entries))
MaxGroups == 5
homophone_groups(entries) == Min(MaxGroups, Len(entries))

\* st.radio(..., options=1..groups, key=f"radio_{i}", index=0): a radio keeps the
\* value it holds while it stays on screen with the same options, and starts
\* at the first option otherwise.
RadioValues(n, groups, held, held_groups) ==
    [i \in 1..n |-> IF held_groups = groups /\ i <= Len(held) THEN held[i] ELSE 1]

\* the concatenation with its parts swapped
SkipWordFront(wk, w) == WordEntries(wk, w) \o RemoveWord(wk, w)

\* Skip: pd.concat([remaining_entries, skipped_entries])
SkipWord(wk, w) == RemoveWord(wk, w) \o WordEntries(wk, w)

-----------------------------------------------------------------------------
(* One execution of the script *)

\* the failed execution that starts the session over
QuietCleared(ss, named) ==
    [keys |-> {}, main |-> <<>>, name |-> <<>>, working |-> <<>>, show |-> FALSE,
     radio |-> <<>>, groups |-> 0, rerun |-> FALSE, screen |-> {},
     error |-> named, cw |-> "", we |-> <<>>]

\* What an execution that reaches none of lines 41-249 leaves: no file in the
\* uploader (lines 254-264), or required columns missing (line 39).  The
\* session is untouched and no widget below the uploader is rendered.
Quiet(ss, named) ==
    [keys |-> ss.keys, main |-> ss.main, name |-> ss.name,
     working |-> ss.working, show |-> ss.show,
     radio |-> <<>>, groups |-> 0, rerun |-> FALSE, screen |-> {},
     error |-> named, cw |-> "", we |-> <<>>]

\* The widgets of a finished execution that shows a group.  Line 215 divides by
\* len(main_df): with an empty main_df the execution ends in the except branch
\* before the skip and export buttons.
Rendered(shown, df) ==
    {"uniform", "manual", "distinct"}
        \cup (IF shown THEN {"radio", "save"} ELSE {})
        \cup (IF Len(df) > 0 THEN {"skip", "export"} ELSE {})

\* the gate that never opens on the button's click
ShowsClassificationHeld(click, show) == show

\* st.session_state.get('show_classification', False) at line 156, after the
\* click on "More than one word (need to classify)" has set it (line 136)
ShowsClassification(click, show) == click = "manual" \/ show

\* The execution of the script in session ss with file f in the uploader,
\* started by the event click, with the radios holding held (each offering
\* held_groups options).  A widget an execution does not render loses its
\* value when the execution ends, also when st.rerun() ends it.
Outcome(ss, f, click, held, held_groups) ==
    IF f = NoFile THEN Quiet(ss, {})
    ELSE IF missing_columns(f) # {} THEN Quiet(ss, missing_columns(f))
    ELSE
      LET df == ApplySingleton(LoadedMain(ss, f))
          wk == InitWorking(ss.keys, ss.working, df)
          base == [keys |-> LoadedKeys(ss, f) \cup {"working_df"}, main |-> df,
                   name |-> LoadedName(ss, f), working |-> wk,
                   show |-> ss.show, radio |-> <<>>, groups |-> 0,
                   rerun |-> FALSE, screen |-> {"export"}, error |-> {},
                   cw |-> "", we |-> <<>>]
      IN
      IF Len(wk) = 0 THEN base
      ELSE
        LET cw == wk[1].word
            we == WordEntries(wk, cw)
            shown == ShowsClassification(click, ss.show)
            g == homophone_groups(we)
            rv == RadioValues(Len(we), g, held, held_groups)
            seen == [base EXCEPT !.cw = cw, !.we = we, !.screen = {}]
        IN
        CASE click = "uniform" ->
               [seen EXCEPT !.main = MarkUniform(df, we),
                            !.working = RemoveWord(wk, cw),
                            !.rerun = TRUE]
          [] click = "distinct" ->
               [seen EXCEPT !.main = MarkDistinct(df, we),
                            !.working = RemoveWord(wk, cw),
                            !.rerun = TRUE]
          [] click = "save" ->
               [seen EXCEPT !.main = MarkManual(df, we, rv),
                            !.working = RemoveWord(wk, cw),
                            !.show = FALSE,
                            !.rerun = TRUE,
                            !.radio = rv, !.groups = g]
          [] click = "skip" ->
               [seen EXCEPT !.working = SkipWord(wk, cw),
                            !.rerun = TRUE,
                            !.radio = IF shown THEN rv ELSE <<>>,
                            !.groups = IF shown THEN g ELSE 0]
          [] OTHER ->
               [seen EXCEPT !.show = shown,
                            !.radio = IF shown THEN rv ELSE <<>>,
                            !.groups = IF shown THEN g ELSE 0,
                            !.screen = Rendered(shown, df)]

\* The uploader's file as later executions can read it.  An execution reads the
\* rows of the file only where it rebuilds main_df (lines 44, 52); once the
\* session holds the file's name no execution reads them again before another
\* file is uploaded, and the rows are dropped from the state.
Unread(f, keys, held) ==
    IF "file_name" \in keys /\ held = f.name THEN [f EXCEPT !.rows = <<>>] ELSE f

\* The state an execution leaves behind.
Leaves(o, f, event) ==
    /\ uploaded_file' = Unread(f, o.keys, o.name)
    /\ session_keys' = o.keys
    /\ main_df' = o.main
    /\ file_name' = o.name
    /\ working_df' = o.working
    /\ show_classification' = o.show
    /\ radio' = o.radio
    /\ radio_groups' = o.groups
    /\ rerun_requested' = o.rerun
    /\ screen' = o.screen
    /\ error' = o.error
    /\ last' = event
    /\ current_word' = o.cw
    /\ word_entries' = o.we

-----------------------------------------------------------------------------
(* The files a user may upload *)

\* a spreadsheet with every required column and the homophone column
Sheet(n, r) == [name |-> n, columns |-> required_columns \cup {"homophone"}, rows |-> r]

RECURSIVE SeqsOf(_, _)
\* the sequences over S of length n
SeqsOf(S, n) ==
    IF n = 0 THEN {<<>>}
    ELSE {Append(s, x) : s \in SeqsOf(S, n - 1), x \in S}

UpTo(S, n) == UNION {SeqsOf(S, k) : k \in 0..n}

Words == {"a", "b"}

\* Files of a session that switches files: at most SwitchRows rows with keys
\* of SwitchKeys, no two rows of a file with the same key, no label read in.
SwitchRows == 2
SwitchKeys == {<<1, 1>>, <<1, 2>>}
SwitchNames == {<<"f1">>, <<"f2">>}
SwitchRow ==
    {[index |-> k[1], sub_index |-> k[2], word |-> w, homophone |-> Blank] :
        k \in SwitchKeys, w \in Words}

\* a file that lacks required columns
BadFiles ==
    {[name |-> <<"f1">>, columns |-> {"index", "sub_index", "word"}, rows |-> <<>>]}

\* the identity key (index, sub_index) is unique across the rows
KeysUnique(r) ==
    \A i, j \in DOMAIN r :
        (r[i].index = r[j].index /\ r[i].sub_index = r[j].sub_index) => i = j

Files ==
    {Sheet(n, r) : n \in SwitchNames,
                   r \in {q \in UpTo(SwitchRow, SwitchRows) : KeysUnique(q)}} \cup BadFiles

\* Files of a session that works on one file.  Entry (i + 1) \div 2 holds the
\* word forms 2i - 1 and 2i, so keys are unique.
EntryKey(i) == [index |-> (i + 1) \div 2, sub_index |-> 2 - (i % 2)]

EntryRows(ws, cs) ==
    [i \in 1..Len(ws) |->
        [index |-> EntryKey(i).index, sub_index |-> EntryKey(i).sub_index,
         word |-> ws[i], homophone |-> cs[i]]]

EntrySheets(n, cells) ==
    {Sheet(<<"f1">>, EntryRows(ws, cs)) : ws \in SeqsOf(Words, n), cs \in SeqsOf(cells, n)}

\* files that come with labels: at most LabelledRows rows, each with a label
\* 1..MaxLabel or none
LabelledRows == 2
MaxLabel == 2
LabelledFiles == UNION {EntrySheets(n, {Blank} \cup (1..MaxLabel)) : n \in 0..LabelledRows}

\* files that come without labels: at most MaxRows rows
MaxRows == 4
PlainFiles == UNION {EntrySheets(n, {Blank}) : n \in 0..MaxRows}

SessionFiles == LabelledFiles \cup PlainFiles

\* Files of a session in which uploads fail: well-formed files of at most
\* SchemaRows rows, and files under either name that lack required columns.
SchemaRows == 3
SchemaFiles == UNION {EntrySheets(n, {Blank}) : n \in 0..SchemaRows}
MissingSets == {{"word"}, {"entry", "gloss"}}
BadSheets ==
    {[name |-> n, columns |-> required_columns \ m, rows |-> <<>>] :
        n \in SwitchNames, m \in MissingSets}

-----------------------------------------------------------------------------
(* The events *)

\* st.session_state as the next execution finds it
Session ==
    [keys |-> session_keys, main |-> main_df, name |-> file_name,
     working |-> working_df, show |-> show_classification]

\* st.session_state of a session that starts
NewSession ==
    [keys |-> {}, main |-> <<>>, name |-> <<>>, working |-> <<>>, show |-> FALSE]

Init ==
    /\ uploaded_file = NoFile
    /\ session_keys = NewSession.keys
    /\ main_df = NewSession.main
    /\ file_name = NewSession.name
    /\ working_df = NewSession.working
    /\ show_classification = NewSession.show
    /\ radio = <<>>
    /\ radio_groups = 0
    /\ rerun_requested = FALSE
    /\ screen = {}
    /\ error = {}
    /\ last = "start"
    /\ current_word = ""
    /\ word_entries = <<>>

\* A file is put in the uploader.
UploadFile(F) ==
    /\ ~rerun_requested
    /\ \E f \in F : Leaves(Outcome(Session, f, "none", radio, radio_groups), f, "upload")

\* The file is taken out of the uploader.
RemoveFile ==
    /\ ~rerun_requested
    /\ uploaded_file # NoFile
    /\ Leaves(Outcome(Session, NoFile, "none", radio, radio_groups), NoFile, "remove")

\* "Just one word (mark all the same)"
ClickUniform ==
    /\ ~rerun_requested
    /\ "uniform" \in screen
    /\ Leaves(Outcome(Session, uploaded_file, "uniform", radio, radio_groups), uploaded_file, "uniform")

\* "More than one word (need to classify)"
ClickManual ==
    /\ ~rerun_requested
    /\ "manual" \in screen
    /\ Leaves(Outcome(Session, uploaded_file, "manual", radio, radio_groups), uploaded_file, "manual")

\* "All different words (mark all as different)"
ClickDistinct ==
    /\ ~rerun_requested
    /\ "distinct" \in screen
    /\ Leaves(Outcome(Session, uploaded_file, "distinct", radio, radio_groups), uploaded_file, "distinct")

\* One radio is set to one of its options.  The reviewer has at most
\* MaxChoices radios away from the first option at a time.
MaxChoices == 2
Chosen(r) == {i \in DOMAIN r : r[i] # 1}

ChooseRadio ==
    /\ ~rerun_requested
    /\ "radio" \in screen
    /\ \E i \in 1..Len(radio), g \in 1..radio_groups :
          /\ radio[i] # g
          /\ Cardinality(Chosen([radio EXCEPT ![i] = g])) <= MaxChoices
          /\ Leaves(Outcome(Session, uploaded_file, "none", [radio EXCEPT ![i] = g], radio_groups),
                    uploaded_file, "radio")

\* "Save Classification & Continue"
ClickSave ==
    /\ ~rerun_requested
    /\ "save" \in screen
    /\ Leaves(Outcome(Session, uploaded_file, "save", radio, radio_groups), uploaded_file, "save")

\* "Skip this word"
ClickSkip ==
    /\ ~rerun_requested
    /\ "skip" \in screen
    /\ Leaves(Outcome(Session, uploaded_file, "skip", radio, radio_groups), uploaded_file, "skip")

\* The export is downloaded, the app is started again and the downloaded file
\* is uploaded to it (line 234: "re-upload the database the next time you run
\* this app").  The name grows by classified_ with every round.
MaxExports == 1
ReuploadExport ==
    /\ ~rerun_requested
    /\ "export" \in screen
    /\ Len(uploaded_file.name) <= MaxExports
    /\ LET f == ExportedFile(uploaded_file.name, main_df)
       IN Leaves(Outcome(NewSession, f, "none", <<>>, 0), f, "reupload")

\* The execution st.rerun() asked for.  It follows the handler that asked for
\* it before any other event is taken: no other action is enabled while
\* rerun_requested holds.
Rerun ==
    /\ rerun_requested
    /\ Leaves(Outcome(Session, uploaded_file, "none", radio, radio_groups), uploaded_file, "rerun")

Next ==
    \/ UploadFile(Files)
    \/ RemoveFile
    \/ ClickUniform
    \/ ClickManual
    \/ ClickDistinct
    \/ ChooseRadio
    \/ ClickSave
    \/ ClickSkip
    \/ ReuploadExport
    \/ Rerun

Spec == Init /\ [][Next]_vars

\* A session on one file: the file is uploaded once and stays in the uploader.
FirstUpload(F) ==
    /\ "main_df" \notin session_keys
    /\ UploadFile(F)

NextSession ==
    \/ FirstUpload(SessionFiles)
    \/ ClickUniform
    \/ ClickManual
    \/ ClickDistinct
    \/ ChooseRadio
    \/ ClickSave
    \/ ClickSkip
    \/ ReuploadExport
    \/ Rerun

SpecSession == Init /\ [][NextSession]_vars

\* A session on one file in which files that lack required columns are
\* uploaded at any time; a well-formed file is uploaded again after a failure.
UploadBad ==
    /\ "main_df" \in session_keys
    /\ UploadFile(BadSheets)

UploadAgain ==
    /\ uploaded_file \in BadSheets
    /\ UploadFile(SchemaFiles)

NextSchema ==
    \/ FirstUpload(SchemaFiles)
    \/ UploadBad
    \/ UploadAgain
    \/ ClickUniform
    \/ ClickManual
    \/ ClickDistinct
    \/ ChooseRadio
    \/ ClickSave
    \/ ClickSkip
    \/ Rerun

SpecSchema == Init /\ [][NextSchema]_vars

-----------------------------------------------------------------------------
(* The claims *)

\* The execution that led here loaded a well-formed file.
Loaded == uploaded_file # NoFile /\ missing_columns(uploaded_file) = {}

\* The execution that led here was the first load of a session: main_df was
\* built from the uploader's file and no name is held yet.
FirstLoad == last \in {"upload", "reupload"} /\ Loaded /\ "file_name" \notin session_keys

\* The file identity the session goes by: the name the script stored or, before
\* it stores one, the name of the file in the uploader.
HeldName == IF "file_name" \in session_keys THEN file_name ELSE uploaded_file.name

\* An upload of a well-formed file to a session that holds a file.
UploadOver == last' = "upload" /\ Loaded' /\ "main_df" \in session_keys /\ HeldName # <<>>

\* Some row of df has the key of r, and every such row is labelled v.
LabelledAs(df, r, v) ==
    /\ \E i \in DOMAIN df : df[i].index = r.index /\ df[i].sub_index = r.sub_index
    /\ \A i \in DOMAIN df :
          df[i].index = r.index /\ df[i].sub_index = r.sub_index => df[i].homophone = v

\* df holds a row with the key of r.
HasKey(df, r) == \E i \in DOMAIN df : df[i].index = r.index /\ df[i].sub_index = r.sub_index

\* C1: after a file whose name differs from the held one is loaded, the store
\* holds exactly the records of a file of that name and the pending queue is
\* exactly the unresolved records of the store.
C1_LoadReplacesWorkingSet ==
    [][(UploadOver /\ uploaded_file'.name # HeldName)
          => /\ \E f \in Files : f.name = uploaded_file'.name
                                   /\ main_df' = ApplySingleton(InitialFrame(f))
             /\ working_df' = Unclassified(main_df')]_vars

\* C2: loading a file whose name is the held one leaves the store as it was.
C2_SameNameLoadKeepsStore ==
    [][(UploadOver /\ uploaded_file'.name = HeldName) => main_df' = main_df]_vars

\* C3: when the export is uploaded to a new session, every record that was
\* labelled at export time has the same label, and the pending queue is exactly
\* the records that were unresolved at export time.
C3_ExportRoundTrip ==
    [][last' = "reupload"
          => /\ Len(main_df') = Len(main_df)
             /\ \A i \in DOMAIN main_df :
                   main_df[i].homophone # NaN => main_df'[i] = main_df[i]
             /\ working_df' = Unclassified(main_df)]_vars

\* An export made after a resolution (a label 2 on one word, another word
\* still unresolved) has been uploaded again.
C3_Witness ==
    /\ last = "reupload"
    /\ \E i, j \in DOMAIN main_df :
          /\ main_df[i].homophone = 2
          /\ main_df[j].homophone = NaN
          /\ main_df[i].word # main_df[j].word
    /\ working_df # <<>>

\* after is before with every record of a once-only word labelled 1 and every
\* other record as it was.
SingletonDone(before, after) ==
    /\ Len(after) = Len(before)
    /\ \A i \in DOMAIN after :
          /\ after[i].index = before[i].index
          /\ after[i].sub_index = before[i].sub_index
          /\ after[i].word = before[i].word
          /\ IF Cardinality({j \in DOMAIN before : before[j].word = before[i].word}) = 1
             THEN after[i].homophone = 1
             ELSE after[i].homophone = before[i].homophone

\* C4: after singleton resolution, on the first load of a file and on every
\* later execution that applies no resolution, every record whose word occurs
\* once has label 1 and every other record keeps the label it had.
C4_SingletonResolution ==
    [][/\ (last' \in {"upload", "reupload"} /\ FirstLoad')
            => SingletonDone(InitialFrame(uploaded_file'), main_df')
       /\ last' \in {"rerun", "manual", "radio", "skip"}
            => SingletonDone(main_df, main_df')]_vars

\* A file has been loaded in which a once-only word and a word on two rows
\* came without labels: the first is labelled 1, the others are still
\* unresolved.
C4_Witness ==
    /\ FirstLoad
    /\ \E i, j, k \in DOMAIN main_df :
          /\ uploaded_file.rows[i].homophone = Blank /\ main_df[i].homophone = 1
          /\ j # k /\ main_df[j].word = main_df[k].word
          /\ main_df[j].homophone = NaN /\ main_df[k].homophone = NaN

\* C5: after the first load, a record whose word occurs once and which came
\* with a label has that label.
C5_SingletonKeepsLabel ==
    FirstLoad =>
        \A i \in DOMAIN main_df :
            (/\ word_counts(main_df, main_df[i].word) = 1
             /\ uploaded_file.rows[i].homophone # Blank)
                => main_df[i].homophone = uploaded_file.rows[i].homophone

\* C6: after "Just one word", every member of the group that was shown is a
\* record of the store labelled 1.
C6_UniformLabelsAll ==
    last = "uniform" => \A k \in DOMAIN word_entries : LabelledAs(main_df, word_entries[k], 1)

\* C7: after "All different words", the k-th member of the group that was
\* shown is a record of the store labelled k.
C7_DistinctLabelsInOrder ==
    last = "distinct" => \A k \in DOMAIN word_entries : LabelledAs(main_df, word_entries[k], k)

\* C8: after "Save Classification & Continue", the k-th member of the group
\* that was shown is a record of the store labelled with the value of its
\* radio (1 unless the reviewer chose another), which lies in 1..min(5, N).
C8_ManualLabelsAsSubmitted ==
    last = "save" =>
        /\ Len(radio) = Len(word_entries)
        /\ \A k \in DOMAIN word_entries :
              /\ LabelledAs(main_df, word_entries[k], radio[k])
              /\ radio[k] \in 1..Min(5, Len(word_entries))

\* C9: a resolution whose group names a key the store does not hold is
\* rejected as a whole: no label is applied and the group stays pending.
C9_InvalidKeyRejectsBatch ==
    [][(/\ last' \in {"uniform", "distinct", "save"}
        /\ \E k \in DOMAIN word_entries' : ~HasKey(main_df, word_entries'[k]))
          => main_df' = main_df /\ working_df' = working_df]_vars

\* q2 is q with the rows of word w moved behind all others, both parts in
\* their order.
MovedBehind(q, q2, w) ==
    /\ Len(q2) = Len(q)
    /\ SelectSeq(q2, LAMBDA r : r.word = w) = SelectSeq(q, LAMBDA r : r.word = w)
    /\ SelectSeq(q2, LAMBDA r : r.word # w) = SelectSeq(q, LAMBDA r : r.word # w)
    /\ \A i, j \in DOMAIN q2 : (q2[i].word = w /\ q2[j].word # w) => j < i

\* C10: "Skip this word" moves the current group behind every other pending
\* group, keeps the order of the other rows and of the group's rows, changes
\* no record of the store, and changes neither queue nor store when the
\* current group is the only one pending.
C10_SkipReorders ==
    [][last' = "skip"
          => /\ current_word' = working_df[1].word
             /\ MovedBehind(working_df, working_df', current_word')
             /\ main_df' = main_df
             /\ (\A i \in DOMAIN working_df : working_df[i].word = current_word')
                    => working_df' = working_df]_vars

\* A group has been skipped while another was pending, and a row of the other
\* group stood before one of its rows in the file.
C10_Witness ==
    /\ last = "skip"
    /\ Len(working_df) = 4
    /\ working_df[1].word # current_word
    /\ working_df[4].word = current_word
    /\ 2 * working_df[1].index + working_df[1].sub_index
          < 2 * working_df[4].index + working_df[4].sub_index

\* The states of the session as the screen shows them: the manual
\* classification is open for the current group, a group is presented without
\* it, or the app reports that all words have been classified.
awaiting_manual_input == "radio" \in screen
presenting_group == "uniform" \in screen /\ "radio" \notin screen
all_resolved == screen = {"export"}

\* the words that have rows in the queue q
PendingGroups(q) == {q[i].word : i \in DOMAIN q}

\* C11: skip is taken only while the manual classification is closed, and the
\* group that a skip makes current is presented with the manual classification
\* closed.
C11_SkipOnlyWhenPresenting ==
    [][/\ last' = "skip" => ~awaiting_manual_input
       /\ (last = "skip" /\ last' = "rerun") => ~awaiting_manual_input']_vars

\* C12: after "Just one word" or "All different words" the group has left the
\* queue and the next execution presents the next pending group with the
\* manual classification closed, or reports that all words are classified.
C12_ResolutionReturnsToPresenting ==
    [][(last \in {"uniform", "distinct"} /\ last' = "rerun")
          => /\ current_word \notin PendingGroups(working_df')
             /\ ~awaiting_manual_input'
             /\ IF working_df' = <<>> THEN all_resolved'
                ELSE presenting_group' /\ current_word' = working_df'[1].word]_vars

\* C13: "More than one word (need to classify)", clicked while a group is
\* presented, opens the manual classification and changes neither a record of
\* the store nor the queue.
C13_ManualOpensWithoutMutation ==
    [][(last' = "manual" /\ presenting_group)
          => /\ awaiting_manual_input'
             /\ show_classification'
             /\ main_df' = main_df
             /\ working_df' = working_df]_vars

\* The manual classification has been opened on a store that holds a label 2
\* and unresolved records.
C13_Witness ==
    /\ last = "manual"
    /\ awaiting_manual_input
    /\ working_df # <<>>
    /\ \E i, j \in DOMAIN main_df : main_df[i].homophone = 2 /\ main_df[j].homophone = NaN

\* df holds the record r (same key, same word) without a label.
UnresolvedIn(df, r) ==
    \E j \in DOMAIN df :
        /\ df[j].index = r.index /\ df[j].sub_index = r.sub_index
        /\ df[j].word = r.word
        /\ df[j].homophone = NaN

\* C14: every row of the queue is an unresolved record of the store, and a
\* group that is presented has members, all of them unresolved records of the
\* store.
C14_QueueHoldsUnresolvedRecords ==
    /\ \A i \in DOMAIN working_df : UnresolvedIn(main_df, working_df[i])
    /\ "uniform" \in screen
          => /\ word_entries # <<>>
             /\ \A k \in DOMAIN word_entries : UnresolvedIn(main_df, word_entries[k])

\* C17: when the queue is empty and the app reports that all words have been
\* classified, every record of the store has a label.
C17_AllResolvedIsTruthful ==
    (all_resolved /\ working_df = <<>>)
        => \A i \in DOMAIN main_df : main_df[i].homophone # NaN

\* C15: an upload that lacks required columns reports exactly the missing
\* ones, renders nothing else, and leaves store, held name, queue and
\* manual-mode flag as they were.
C15_SchemaErrorKeepsSession ==
    [][(/\ last' = "upload"
        /\ uploaded_file' # NoFile
        /\ ~({"index", "sub_index", "entry", "gloss", "word"} \subseteq uploaded_file'.columns))
          => /\ error' = {"index", "sub_index", "entry", "gloss", "word"} \ uploaded_file'.columns
             /\ screen' = {}
             /\ session_keys' = session_keys
             /\ main_df' = main_df
             /\ file_name' = file_name
             /\ working_df' = working_df
             /\ show_classification' = show_classification]_vars

\* An upload has failed for two missing columns in a session that holds a
\* labelled record, pending records, a file name and an open manual
\* classification.
C15_Witness ==
    /\ last = "upload"
    /\ error = {"entry", "gloss"}
    /\ show_classification
    /\ file_name # <<>>
    /\ working_df # <<>>
    /\ \E i \in DOMAIN main_df : main_df[i].homophone = 1

\* C16: marking once-only words twice gives the store that marking them once
\* gives, and the marking that the execution after a resolution applies
\* changes no label.
C16_SingletonIdempotent ==
    [][/\ ApplySingleton(ApplySingleton(main_df')) = ApplySingleton(main_df')
       /\ last' = "rerun" => main_df' = main_df]_vars

\* C18: a resolution of the group of word w changes no record of the store
\* whose word is not w.
C18_ResolutionScopedToGroup ==
    [][last' \in {"uniform", "distinct", "save"}
          => /\ Len(main_df') = Len(main_df)
             /\ \A i \in DOMAIN main_df :
                   main_df[i].word # current_word' => main_df'[i] = main_df[i]]_vars

\* C19: every resolution takes exactly the current group out of the pending
\* groups, no other event of the session changes the pending groups, and the
\* app reports that all words are classified exactly when none is pending: a
\* file with k pending groups is done after k resolutions.
C19_ResolutionRemovesOneGroup ==
    [][/\ last' \in {"uniform", "distinct", "save"}
            => /\ current_word' \in PendingGroups(working_df)
               /\ PendingGroups(working_df') = PendingGroups(working_df) \ {current_word'}
       /\ last' \in {"skip", "manual", "radio", "rerun"}
            => PendingGroups(working_df') = PendingGroups(working_df)
       /\ last' = "rerun" => (all_resolved' <=> PendingGroups(working_df') = {})]_vars

\* A file with two groups has been worked through: both words stand on more
\* than one row and the app reports that all words are classified.
C19_Witness ==
    /\ last = "rerun"
    /\ all_resolved
    /\ \E i, j \in DOMAIN main_df :
          /\ main_df[i].word # main_df[j].word
          /\ word_counts(main_df, main_df[i].word) > 1
          /\ word_counts(main_df, main_df[j].word) > 1

====
